---- MODULE Spec2Model ----
(***************************************************************************)
(* A model of data_parse/make_loops.py: the correlative-matrix loop        *)
(* extraction (calc_correlation, get_valid_loops), the density filter and  *)
(* loop assembler over DadaGP token lists (filter_loops_density,           *)
(* unify_loops) and the hard-repeat scanner (get_repeats,                  *)
(* get_num_repeats).                                                       *)
(*                                                                         *)
(* Python indices are kept 0-based; a Python list is a TLA+ sequence, so   *)
(* element k of a list l is l[k + 1].  None is the empty tuple <<>> and a  *)
(* returned integer r is the 1-tuple <<r>>.                                *)
(***************************************************************************)
EXTENDS Integers, Sequences, FiniteSets, TLC

VARIABLES
    pc,             \* position of the running program
    \* ---- calc_correlation / get_valid_loops
    melody_seq,     \* the track's list of MelodyNote
    corr_mat,       \* run-length matrix, indexed by <<i, j>>
    corr_dur,       \* run-duration matrix (ticks), indexed by <<i, j>>
    row,            \* the outer loop index i of calc_correlation
    params,         \* keyword arguments of the running function
    valid_indices,  \* seeds that passed the beat-span test
    vi,             \* index of the next seed of valid_indices
    cand,           \* locals of the last seed processed by get_valid_loops
    loops,          \* accepted loops (lists of MelodyNote)
    loop_bp,        \* tick pairs, parallel to loops; the window list of the token functions
    \* ---- filter_loops_density / unify_loops
    token_list,     \* DadaGP token list
    wi,             \* index of the next window of loop_bp
    scan,           \* locals of the last window's density scan
    final_endpoints,\* result of filter_loops_density
    final_list,     \* result of unify_loops / get_repeats
    error,          \* the exceptions raised, as <<function, exception>>
    \* ---- get_repeats / get_num_repeats
    fn,             \* which of the two scanners is running
    list_words,     \* DadaGP token list
    ti,             \* the scan index i
    endpoint_dict,  \* start index -> end index, -1 while unresolved
    length_dict,    \* start index -> <<measures, notes, instruments>>
    open_reps,      \* stack of open repeat start indices
    curr_length,    \* measures since the last repeat_open
    curr_notes,     \* instrument -> notes since the last repeat_open
    resolved,       \* start indices in the order their endpoint was resolved
    kept,           \* start indices that passed the length and density filter
    num_repeats     \* result of get_num_repeats

loopVars == <<melody_seq, corr_mat, corr_dur, row, valid_indices, vi, cand, loops>>
tokenVars == <<token_list, wi, scan, final_endpoints>>
repeatVars == <<fn, list_words, ti, endpoint_dict, length_dict, open_reps,
                curr_length, curr_notes, resolved, kept, num_repeats>>
vars == <<pc, params, loop_bp, final_list, error, loopVars, tokenVars, repeatVars>>

(***************************************************************************)
(* Bounds of the model and constants of the program.                       *)
(***************************************************************************)
MaxNotes == 5
TicksPerWhole == 3840
TicksPerBeat == 960
BarTicks == 2 * TicksPerBeat

(***************************************************************************)
(* MelodyNote                                                              *)
(***************************************************************************)
\* tick_duration of MelodyNote.__init__
TickDuration(duration, is_dotted) ==
    IF is_dotted THEN ((TicksPerWhole \div duration) * 3) \div 2
    ELSE TicksPerWhole \div duration

\* The beats a track is built from: duration value, dotted flag, and the
\* notes of the beat as <<string, value, type>>.
Beats ==
    { [duration |-> 4, is_dotted |-> FALSE, note_list |-> {<<1, 0, "normal">>}],
      [duration |-> 4, is_dotted |-> TRUE,  note_list |-> {<<1, 0, "normal">>}],
      [duration |-> 8, is_dotted |-> FALSE, note_list |-> {<<1, 0, "normal">>}],
      [duration |-> 4, is_dotted |-> FALSE, note_list |-> {<<1, 0, "normal">>, <<2, 2, "normal">>}],
      [duration |-> 4, is_dotted |-> FALSE, note_list |-> {}] }

\* MelodyNote.__init__
MelodyNote(beat, start, bar_start) ==
    [ duration      |-> beat.duration,
      is_dotted     |-> beat.is_dotted,
      tick_duration |-> TickDuration(beat.duration, beat.is_dotted),
      start_time    |-> start,
      on_bar        |-> (start = bar_start),
      notes         |-> IF beat.note_list = {} THEN {<<0, 0>>}
                        ELSE { <<n[1], n[2]>> : n \in beat.note_list },
      note_types    |-> IF beat.note_list = {} THEN {"rest"}
                        ELSE { n[3] : n \in beat.note_list } ]

\* A plausible slip of __eq__: the dotted flag is not compared.
MelodyEqNoDot(a, b) ==
    /\ a.duration = b.duration
    /\ Cardinality(a.notes) = Cardinality(b.notes)
    /\ \A m \in a.notes : m \in b.notes

\* MelodyNote.__eq__
MelodyEq(a, b) ==
    IF a.duration # b.duration THEN FALSE
    ELSE IF a.is_dotted # b.is_dotted THEN FALSE
    ELSE IF Cardinality(a.notes) # Cardinality(b.notes) THEN FALSE
    ELSE \A m \in a.notes : m \in b.notes

\* create_track_list for one track: the beats laid end to end from tick 0,
\* in measures of BarTicks ticks.
RECURSIVE TrackList(_, _)
TrackList(beats, start) ==
    IF beats = <<>> THEN <<>>
    ELSE <<MelodyNote(Head(beats), start, start - (start % BarTicks))>>
         \o TrackList(Tail(beats),
                      start + TickDuration(Head(beats).duration, Head(beats).is_dotted))

BeatSeqs == UNION { [1..n -> Beats] : n \in 0..MaxNotes }

(***************************************************************************)
(* calc_correlation                                                        *)
(***************************************************************************)
Cells(n) == (0..(n - 1)) \X (0..(n - 1))

\* np.zeros((corr_size, corr_size))
Zeros(n) == [c \in Cells(n) |-> 0]

\* The loop over j for row 0 (lines 127-133), on the run matrix.
Row0Mat(S, mat) ==
    [c \in DOMAIN mat |->
        IF c[1] = 0 /\ c[2] >= 1
        THEN (IF MelodyEq(S[1], S[c[2] + 1]) THEN 1 ELSE 0)
        ELSE mat[c]]

\* The loop over j for row 0, on the duration matrix.
Row0Dur(S, dur) ==
    [c \in DOMAIN dur |->
        IF c[1] = 0 /\ c[2] >= 1
        THEN (IF MelodyEq(S[1], S[c[2] + 1]) THEN S[c[2] + 1].tick_duration ELSE 0)
        ELSE dur[c]]

\* The loop over j for one row i >= 1 (lines 135-141), on the run matrix.
RowMat(S, mat, i) ==
    [c \in DOMAIN mat |->
        IF c[1] = i /\ c[2] >= i + 1
        THEN (IF MelodyEq(S[i + 1], S[c[2] + 1])
              THEN mat[<<i - 1, c[2] - 1>>] + 1 ELSE 0)
        ELSE mat[c]]

\* The loop over j for one row i >= 1, on the duration matrix.
RowDur(S, dur, i) ==
    [c \in DOMAIN dur |->
        IF c[1] = i /\ c[2] >= i + 1
        THEN (IF MelodyEq(S[i + 1], S[c[2] + 1])
              THEN dur[<<i - 1, c[2] - 1>>] + S[c[2] + 1].tick_duration ELSE 0)
        ELSE dur[c]]

(***************************************************************************)
(* get_valid_loops                                                         *)
(***************************************************************************)
\* Every cell of an n x n matrix in row-major order, the order of np.where.
AllCells(n) == [k \in 1..(n * n) |-> <<(k - 1) \div n, (k - 1) % n>>]

\* np.where(corr_mat == min_len), as the list of <<x, y>>
WhereEq(mat, n, v) == SelectSeq(AllCells(n), LAMBDA c : mat[c] = v)

\* A plausible slip of the beat-span test: the upper bound is not tested.
SpanOkNoMax(loop_beats_ticks, min_beats, max_beats) ==
    loop_beats_ticks >= min_beats * TicksPerBeat

\* loop_beats <= max_beats and loop_beats >= min_beats (line 158), with
\* loop_beats = ticks / 960.0 compared in ticks.
SpanOk(loop_beats_ticks, min_beats, max_beats) ==
    /\ loop_beats_ticks <= max_beats * TicksPerBeat
    /\ loop_beats_ticks >= min_beats * TicksPerBeat

\* The seed filter of lines 150-159 for one cell <<x, y>>.
SeedOk(S, mat, c, p) ==
    LET start_x == c[1] - mat[c] + 1
        start_y == c[2] - mat[c] + 1
        loop_start_time == S[start_x + 1].start_time
        loop_end_time == S[start_y + 1].start_time
    IN  SpanOk(loop_end_time - loop_start_time, p.min_beats, p.max_beats)

\* valid_indices of lines 147-159
ValidIndices(S, mat, p) ==
    SelectSeq(WhereEq(mat, Len(S), p.min_len), LAMBDA c : SeedOk(S, mat, c, p))

\* The while loop of lines 167-169: walk the diagonal while the run grows.
RECURSIVE Extend(_, _, _, _)
Extend(mat, corr_size, x, y) ==
    IF x + 1 < corr_size /\ y + 1 < corr_size /\ mat[<<x + 1, y + 1>>] > mat[<<x, y>>]
    THEN Extend(mat, corr_size, x + 1, y + 1)
    ELSE <<x, y>>

\* melody_seq[beginning:end] for 0 <= beginning, end <= len
Slice(S, beginning, end) == SubSeq(S, beginning + 1, end)

\* is_empty_pattern
IsEmptyPattern(p) == \A k \in 1..Len(p) : p[k].note_types = {"rest"}

\* compare_patterns(p1, p2): both loops return in their first iteration; with
\* nothing to iterate over the function falls off its end and returns None.
ComparePatterns(p1, p2) ==
    IF Len(p1) < Len(p2)
    THEN (IF Len(p1) = 0 THEN <<>>
          ELSE IF ~MelodyEq(p1[1], p2[1]) THEN <<0>> ELSE <<1>>)
    ELSE (IF Len(p2) = 0 THEN <<>>
          ELSE IF ~MelodyEq(p1[1], p2[1]) THEN <<0>> ELSE <<2>>)

\* test_loop_exists, scanning pattern_list from 0-based index i
RECURSIVE TestLoopExistsFrom(_, _, _)
TestLoopExistsFrom(pattern_list, pattern, i) ==
    IF i >= Len(pattern_list) THEN <<>>
    ELSE LET result == ComparePatterns(pattern, pattern_list[i + 1])
         IN  IF result = <<1>> THEN <<-1>>
             ELSE IF result = <<2>> THEN <<i>>
             ELSE TestLoopExistsFrom(pattern_list, pattern, i + 1)

\* test_loop_exists
TestLoopExists(pattern_list, pattern) == TestLoopExistsFrom(pattern_list, pattern, 0)

\* The acceptance test of line 174
Accepted(S, beginning, end, duration, p) ==
    /\ duration >= p.min_rep_beats * TicksPerBeat
    /\ S[beginning + 1].on_bar
    /\ ~IsEmptyPattern(Slice(S, beginning, end))

\* The body of the loop over valid_indices (lines 165-182) for one seed:
\* the locals it computes.
Candidate(S, mat, dur, seed, p, loops_now) ==
    LET xy == Extend(mat, Len(S), seed[1], seed[2])
        beginning == xy[1] - mat[xy] + 1
        duration == dur[xy]
        end == xy[2] - mat[xy] + 1
        ok == Accepted(S, beginning, end, duration, p)
        loop == Slice(S, beginning, end)
    IN  [ start_x |-> seed[1], start_y |-> seed[2], x |-> xy[1], y |-> xy[2],
          beginning |-> beginning, end |-> end, duration |-> duration,
          accepted |-> ok, loop |-> loop,
          exist_result |-> IF ok THEN TestLoopExists(loops_now, loop) ELSE <<>> ]

\* Lines 177-182 on the list of loops
UpdateLoops(loops_now, c) ==
    IF ~c.accepted THEN loops_now
    ELSE IF c.exist_result = <<>> THEN Append(loops_now, c.loop)
    ELSE IF c.exist_result[1] > 0
         THEN [loops_now EXCEPT ![c.exist_result[1] + 1] = c.loop]
    ELSE loops_now

\* Lines 177-182 on the list of tick pairs
UpdateLoopBp(S, bp_now, c) ==
    LET pair == <<S[c.beginning + 1].start_time, S[c.end + 1].start_time>>
    IN  IF ~c.accepted THEN bp_now
        ELSE IF c.exist_result = <<>> THEN Append(bp_now, pair)
        ELSE IF c.exist_result[1] > 0
             THEN [bp_now EXCEPT ![c.exist_result[1] + 1] = pair]
        ELSE bp_now

\* Keyword arguments get_valid_loops is called with.
LoopParams ==
    [min_len : {1, 2}, min_beats : {1, 2}, max_beats : {2, 3}, min_rep_beats : {1, 2}]

NoCand ==
    [ start_x |-> 0, start_y |-> 0, x |-> 0, y |-> 0, beginning |-> 0, end |-> 0,
      duration |-> 0, accepted |-> FALSE, loop |-> <<>>, exist_result |-> <<>> ]

(***************************************************************************)
(* The loop extraction as a state machine: calc_correlation row by row,    *)
(* then get_valid_loops seed by seed.                                      *)
(***************************************************************************)
IdleTokens == token_list = <<>> /\ wi = 0 /\ scan = <<>> /\ final_endpoints = <<>>

IdleRepeats ==
    /\ fn = "" /\ list_words = <<>> /\ ti = 0 /\ endpoint_dict = <<>>
    /\ length_dict = <<>> /\ open_reps = <<>> /\ curr_length = 0
    /\ curr_notes = <<>> /\ resolved = <<>> /\ kept = {} /\ num_repeats = 0

IdleLoops ==
    /\ melody_seq = <<>> /\ corr_mat = <<>> /\ corr_dur = <<>> /\ row = 0
    /\ valid_indices = <<>> /\ vi = 0 /\ cand = NoCand /\ loops = <<>>

InitLoops ==
    /\ pc = "corr_row0"
    /\ \E beats \in BeatSeqs : melody_seq = TrackList(beats, 0)
    /\ corr_mat = Zeros(Len(melody_seq))
    /\ corr_dur = Zeros(Len(melody_seq))
    /\ row = 0
    /\ params = <<>>
    /\ valid_indices = <<>> /\ vi = 0 /\ cand = NoCand
    /\ loops = <<>> /\ loop_bp = <<>>
    /\ final_list = <<>> /\ error = {}
    /\ IdleTokens /\ IdleRepeats

\* calc_correlation, lines 127-133
CalcCorrelationRow0 ==
    /\ pc = "corr_row0"
    /\ corr_mat' = Row0Mat(melody_seq, corr_mat)
    /\ corr_dur' = Row0Dur(melody_seq, corr_dur)
    /\ row' = 1
    /\ pc' = "corr_rows"
    /\ UNCHANGED <<melody_seq, valid_indices, vi, cand, loops, params, loop_bp,
                   final_list, error, tokenVars, repeatVars>>

\* calc_correlation, one iteration of the loop over i of lines 134-141
CalcCorrelationRow ==
    /\ pc = "corr_rows"
    /\ row < Len(melody_seq) - 1
    /\ corr_mat' = RowMat(melody_seq, corr_mat, row)
    /\ corr_dur' = RowDur(melody_seq, corr_dur, row)
    /\ row' = row + 1
    /\ UNCHANGED <<pc, melody_seq, valid_indices, vi, cand, loops, params, loop_bp,
                   final_list, error, tokenVars, repeatVars>>

\* calc_correlation returns; get_valid_loops is called and filters its seeds
\* (lines 143, 147-163).
GetValidLoopsSeeds ==
    /\ pc = "corr_rows"
    /\ row >= Len(melody_seq) - 1
    /\ \E p \in LoopParams :
          /\ params' = p
          /\ valid_indices' = ValidIndices(melody_seq, corr_mat, p)
    /\ vi' = 0
    /\ pc' = "gvl_loop"
    /\ UNCHANGED <<melody_seq, corr_mat, corr_dur, row, cand, loops, loop_bp,
                   final_list, error, tokenVars, repeatVars>>

\* get_valid_loops, one iteration of the loop over valid_indices (lines 164-182)
GetValidLoopsStep ==
    /\ pc = "gvl_loop"
    /\ vi < Len(valid_indices)
    /\ cand' = Candidate(melody_seq, corr_mat, corr_dur, valid_indices[vi + 1],
                         params, loops)
    /\ loops' = UpdateLoops(loops, cand')
    /\ loop_bp' = UpdateLoopBp(melody_seq, loop_bp, cand')
    /\ vi' = vi + 1
    /\ UNCHANGED <<pc, melody_seq, corr_mat, corr_dur, row, valid_indices, params,
                   final_list, error, tokenVars, repeatVars>>

\* get_valid_loops returns loops, loop_bp (line 184)
GetValidLoopsReturn ==
    /\ pc = "gvl_loop"
    /\ vi = Len(valid_indices)
    /\ pc' = "gvl_done"
    /\ UNCHANGED <<params, loop_bp, final_list, error, loopVars, tokenVars, repeatVars>>

NextLoops ==
    \/ CalcCorrelationRow0
    \/ CalcCorrelationRow
    \/ GetValidLoopsSeeds
    \/ GetValidLoopsStep
    \/ GetValidLoopsReturn

SpecLoops == InitLoops /\ [][NextLoops]_vars

(***************************************************************************)
(* Properties of the loop extraction                                       *)
(***************************************************************************)
\* Note equivalence as the data model states it: same duration code, same
\* dotted flag, same pitch set.
SameNote(a, b) ==
    a.duration = b.duration /\ a.is_dotted = b.is_dotted /\ a.notes = b.notes

\* C1: in the run matrix, for every cell i < j, run[i][j] > 0 implies that
\* S[i] and S[j] are the same note and that the run[i][j] notes ending at i
\* equal, element by element, the run[i][j] notes ending at j.
C1_RunImpliesEqualSubsequences ==
    \A c \in DOMAIN corr_mat :
        (c[1] < c[2] /\ corr_mat[c] > 0) =>
            /\ corr_mat[c] <= c[1] + 1
            /\ SameNote(melody_seq[c[1] + 1], melody_seq[c[2] + 1])
            /\ \A k \in 0..(corr_mat[c] - 1) :
                   SameNote(melody_seq[c[1] - k + 1], melody_seq[c[2] - k + 1])

\* A run of at least two notes, other than a note repeated, has been found
\* by the completed matrix construction.
C1_Witness ==
    /\ pc = "gvl_loop"
    /\ \E c \in DOMAIN corr_mat :
          /\ corr_mat[c] >= 2
          /\ ~SameNote(melody_seq[c[1] + 1], melody_seq[c[1]])

\* The first accepted loop, in list order, whose first note is that of p;
\* 0 when there is none (1-based).
FirstSameStart(p) ==
    LET ks == { k \in 1..Len(loops) : SameNote(loops[k][1], p[1]) }
    IN  IF ks = {} THEN 0 ELSE CHOOSE k \in ks : \A m \in ks : k <= m

\* C2: a candidate that passed the acceptance tests and starts with the first
\* note of the accepted loop at index k (the first such k, k = 0 included) is
\* discarded when it is shorter and otherwise replaces the loop and the tick
\* pair at k; a candidate that starts like no accepted loop is appended.
C2_DedupKeepsLonger ==
    [][ (pc = "gvl_loop" /\ vi' = vi + 1 /\ cand'.accepted) =>
          LET new == cand'.loop
              pair == <<melody_seq[cand'.beginning + 1].start_time,
                        melody_seq[cand'.end + 1].start_time>>
              k == FirstSameStart(new)
          IN  IF k = 0
              THEN loops' = Append(loops, new) /\ loop_bp' = Append(loop_bp, pair)
              ELSE IF Len(new) < Len(loops[k])
              THEN loops' = loops /\ loop_bp' = loop_bp
              ELSE /\ loops' = [loops EXCEPT ![k] = new]
                   /\ loop_bp' = [loop_bp EXCEPT ![k] = pair] ]_vars

\* C9: every tick pair get_valid_loops holds spans between min_beats and
\* max_beats beats, starts at an on-bar note and comes from a diagonal whose
\* matched duration is at least min_rep_beats beats; the forward extension
\* leaves the window of the seed as it was, and the indices the ticks are
\* read at are inside the note sequence.
C9_LoopWindowsValid ==
    pc \in {"gvl_loop", "gvl_done"} =>
        /\ Len(loops) = Len(loop_bp)
        /\ \A k \in 1..Len(loop_bp) :
              /\ loop_bp[k][2] - loop_bp[k][1] >= params.min_beats * TicksPerBeat
              /\ loop_bp[k][2] - loop_bp[k][1] <= params.max_beats * TicksPerBeat
              /\ loops[k] # <<>>
              /\ loops[k][1].on_bar
              /\ loops[k][1].start_time = loop_bp[k][1]
              /\ \E c \in DOMAIN corr_mat :
                    /\ c[1] < c[2]
                    /\ corr_mat[c] >= params.min_len
                    /\ corr_dur[c] >= params.min_rep_beats * TicksPerBeat
                    /\ melody_seq[c[1] - corr_mat[c] + 2].start_time = loop_bp[k][1]
                    /\ melody_seq[c[2] - corr_mat[c] + 2].start_time = loop_bp[k][2]
        /\ vi > 0 =>
              /\ cand.beginning = cand.start_x - params.min_len + 1
              /\ cand.end = cand.start_y - params.min_len + 1
              /\ cand.beginning \in 0..(Len(melody_seq) - 1)
              /\ cand.end \in 0..(Len(melody_seq) - 1)

\* After an append, the loop of a later seed replaced an accepted loop at an
\* index past 0, and its tick pair stands in loop_bp.
C9_Witness ==
    /\ pc = "gvl_loop"
    /\ vi > 0
    /\ cand.accepted
    /\ cand.exist_result # <<>>
    /\ cand.exist_result[1] > 0
    /\ loop_bp[cand.exist_result[1] + 1] =
          <<melody_seq[cand.beginning + 1].start_time, melody_seq[cand.end + 1].start_time>>

(***************************************************************************)
(* DadaGP tokens.  A token is a string in the program; the model keeps     *)
(* what the program reads of it: which substrings it contains, the text    *)
(* before its first ":" and the integer after "wait:".                     *)
(***************************************************************************)
NoteToken(inst) == [kind |-> "note", inst |-> inst, n |-> 0]
WaitToken(n) == [kind |-> "wait", inst |-> "wait", n |-> n]
NewMeasure == [kind |-> "new_measure", inst |-> "new_measure", n |-> 0]
RepeatOpen == [kind |-> "repeat_open", inst |-> "measure", n |-> 0]
RepeatClose(n) == [kind |-> "repeat_close", inst |-> "measure", n |-> n]
HeaderToken(k) == [kind |-> "header", inst |-> "header", n |-> k]

\* "note" in t
HasNote(t) == t.kind = "note"
\* "wait:" in t
HasWait(t) == t.kind = "wait"
\* "repeat" not in t, negated
HasRepeat(t) == t.kind \in {"repeat_open", "repeat_close"}
\* "measure:repeat_close" in t
HasRepeatClose(t) == t.kind = "repeat_close"
\* t.split(":")[0]
Instrument(t) == t.inst
\* int(t[5:])
WaitTicks(t) == t.n

\* token_list[0:4]
HeaderOf(tokens) == SubSeq(tokens, 1, IF Len(tokens) < 4 THEN Len(tokens) ELSE 4)

\* num_notes[instrument] = 1 or += 1 (lines 199-203), on a dict kept as a function
CountNote(num_notes, instrument) ==
    IF instrument \in DOMAIN num_notes
    THEN [num_notes EXCEPT ![instrument] = @ + 1]
    ELSE num_notes @@ (instrument :> 1)

\* total_notes of lines 212-214
RECURSIVE TotalNotes(_)
TotalNotes(num_notes) ==
    IF DOMAIN num_notes = {} THEN 0
    ELSE LET inst == CHOOSE k \in DOMAIN num_notes : TRUE
         IN  num_notes[inst]
             + TotalNotes([k \in DOMAIN num_notes \ {inst} |-> num_notes[k]])

\* The empty dict
EmptyDict == [k \in {} |-> 0]

(***************************************************************************)
(* filter_loops_density                                                    *)
(***************************************************************************)
\* The scan of lines 196-210 from token index i with the locals st.
RECURSIVE FilterScan(_, _, _, _)
FilterScan(tokens, pts, i, st) ==
    IF i >= Len(tokens) THEN st
    ELSE LET t == tokens[i + 1]
             notes1 == IF HasNote(t) THEN CountNote(st.num_notes, Instrument(t))
                       ELSE st.num_notes
             meas1 == IF st.timestamp >= pts[1] /\ st.timestamp < pts[2] /\ t = NewMeasure
                      THEN st.num_meas + 1 ELSE st.num_meas
             time1 == IF HasWait(t) THEN st.timestamp + WaitTicks(t) ELSE st.timestamp
             st1 == [num_meas |-> meas1, timestamp |-> time1, num_notes |-> notes1]
         IN  IF time1 >= pts[2] THEN st1 ELSE FilterScan(tokens, pts, i + 1, st1)

\* curr_density >= density * num_meas (lines 215-217) for a scan that counted
\* at least one instrument: total_notes / len(num_notes) compared exactly.
DensityOk(st, density) ==
    TotalNotes(st.num_notes) >= density * st.num_meas * Cardinality(DOMAIN st.num_notes)

\* The locals of one window's iteration of lines 192-218.  The division of
\* line 215 raises ZeroDivisionError when num_notes is empty.
FilterWindow(tokens, pts, density) ==
    LET st == FilterScan(tokens, pts, 0,
                         [num_meas |-> 0, timestamp |-> 0, num_notes |-> EmptyDict])
        raised == DOMAIN st.num_notes = {}
    IN  [ pts |-> pts, num_meas |-> st.num_meas, total_notes |-> TotalNotes(st.num_notes),
          instruments |-> DOMAIN st.num_notes, raised |-> raised,
          keep |-> IF raised THEN FALSE ELSE DensityOk(st, density) ]

(***************************************************************************)
(* unify_loops                                                             *)
(***************************************************************************)
\* The scan of lines 233-245 from token index i with the locals st: the
\* timestamp is never advanced in this loop.
RECURSIVE UnifyScan(_, _, _, _)
UnifyScan(tokens, pts, i, st) ==
    IF i >= Len(tokens) THEN st
    ELSE LET t == tokens[i + 1]
             notes1 == IF HasNote(t) THEN CountNote(st.num_notes, Instrument(t))
                       ELSE st.num_notes
             meas1 == IF st.timestamp >= pts[1] /\ st.timestamp < pts[2] /\ t = NewMeasure
                      THEN st.num_meas + 1 ELSE st.num_meas
             st1 == [num_meas |-> meas1, timestamp |-> st.timestamp, num_notes |-> notes1]
         IN  IF st.timestamp >= pts[2] THEN st1 ELSE UnifyScan(tokens, pts, i + 1, st1)

\* The copy loop of lines 257-270 from token index i: out is final_list.
RECURSIVE UnifyCopy(_, _, _, _, _, _, _)
UnifyCopy(tokens, pts, num_meas, i, timestamp, measure_idx, out) ==
    IF i >= Len(tokens) THEN out
    ELSE LET t == tokens[i + 1]
             copied == timestamp >= pts[1] /\ timestamp < pts[2] /\ ~HasRepeat(t)
             out1 == IF ~copied THEN out
                     ELSE Append(out, t)
                          \o (IF t = NewMeasure /\ measure_idx = 0
                              THEN <<RepeatOpen>> ELSE <<>>)
                          \o (IF t = NewMeasure /\ measure_idx = num_meas - 1
                              THEN <<RepeatClose(1)>> ELSE <<>>)
             idx1 == IF copied /\ t = NewMeasure THEN measure_idx + 1 ELSE measure_idx
             time1 == IF HasWait(t) THEN timestamp + WaitTicks(t) ELSE timestamp
         IN  IF time1 >= pts[2] THEN out1
             ELSE UnifyCopy(tokens, pts, num_meas, i + 1, time1, idx1, out1)

\* The locals of one window's iteration of lines 228-253.  The division of
\* line 250 raises ZeroDivisionError when num_notes is empty.
UnifyWindow(tokens, pts, density) ==
    LET st == UnifyScan(tokens, pts, 0,
                        [num_meas |-> 0, timestamp |-> 0, num_notes |-> EmptyDict])
        raised == DOMAIN st.num_notes = {}
    IN  [ pts |-> pts, num_meas |-> st.num_meas, total_notes |-> TotalNotes(st.num_notes),
          instruments |-> DOMAIN st.num_notes, raised |-> raised,
          keep |-> IF raised THEN FALSE ELSE DensityOk(st, density) ]

(***************************************************************************)
(* The token functions as a state machine: filter_loops_density and then   *)
(* unify_loops are called with the same token list, windows and density,   *)
(* and each runs window by window.  scan keeps, per function, the locals   *)
(* of every window iteration so far.                                       *)
(***************************************************************************)
MaxBody == 4
MaxWindows == 2
MaxTick == 2

BodyTokens == {NoteToken("g"), NoteToken("b"), WaitToken(1), NewMeasure, RepeatClose(1)}

TokenLists ==
    { <<HeaderToken(0), HeaderToken(1), HeaderToken(2), HeaderToken(3)>> \o body :
        body \in UNION { [1..n -> BodyTokens] : n \in 0..MaxBody } }

Windows == { w \in (0..MaxTick) \X (0..MaxTick) : w[1] < w[2] }

WindowLists == UNION { [1..n -> Windows] : n \in 0..MaxWindows }

InitTokens ==
    /\ pc = "fld"
    /\ token_list \in TokenLists
    /\ loop_bp \in WindowLists
    /\ params \in [density : {1, 2}]
    /\ wi = 0
    /\ scan = [fld |-> <<>>, ul |-> <<>>]
    /\ final_endpoints = <<>>
    /\ final_list = <<>>
    /\ error = {}
    /\ IdleLoops /\ IdleRepeats

\* filter_loops_density, lines 188-189
FilterLoopsDensityEmpty ==
    /\ pc = "fld"
    /\ Len(loop_bp) = 0
    /\ final_endpoints' = <<>>
    /\ pc' = "ul"
    /\ UNCHANGED <<params, loop_bp, final_list, error, token_list, wi, scan,
                   loopVars, repeatVars>>

\* filter_loops_density, one iteration of the loop over loop_bp (lines 192-218)
FilterLoopsDensityWindow ==
    /\ pc = "fld"
    /\ wi < Len(loop_bp)
    /\ LET w == FilterWindow(token_list, loop_bp[wi + 1], params.density)
       IN  /\ scan' = [scan EXCEPT !.fld = Append(@, w)]
           /\ IF w.raised
              THEN /\ error' = error \cup {<<"filter_loops_density", "ZeroDivisionError">>}
                   /\ pc' = "ul"
                   /\ wi' = 0
                   /\ UNCHANGED final_endpoints
              ELSE /\ final_endpoints' =
                          IF w.keep THEN Append(final_endpoints, loop_bp[wi + 1])
                          ELSE final_endpoints
                   /\ wi' = wi + 1
                   /\ UNCHANGED <<pc, error>>
    /\ UNCHANGED <<params, loop_bp, final_list, token_list, loopVars, repeatVars>>

\* filter_loops_density returns final_endpoints (line 220)
FilterLoopsDensityReturn ==
    /\ pc = "fld"
    /\ Len(loop_bp) > 0
    /\ wi = Len(loop_bp)
    /\ pc' = "ul"
    /\ wi' = 0
    /\ UNCHANGED <<params, loop_bp, final_list, error, token_list, scan,
                   final_endpoints, loopVars, repeatVars>>

\* unify_loops, lines 224-225
UnifyLoopsEmpty ==
    /\ pc = "ul"
    /\ Len(loop_bp) = 0
    /\ final_list' = HeaderOf(token_list)
    /\ pc' = "tok_done"
    /\ UNCHANGED <<params, loop_bp, error, tokenVars, loopVars, repeatVars>>

\* unify_loops, one iteration of the loop over loop_bp (lines 228-270); the
\* first iteration starts from the header of line 227.
UnifyLoopsWindow ==
    /\ pc = "ul"
    /\ wi < Len(loop_bp)
    /\ LET w == UnifyWindow(token_list, loop_bp[wi + 1], params.density)
           base == IF wi = 0 THEN HeaderOf(token_list) ELSE final_list
       IN  /\ scan' = [scan EXCEPT !.ul = Append(@, w)]
           /\ IF w.raised
              THEN /\ error' = error \cup {<<"unify_loops", "ZeroDivisionError">>}
                   /\ pc' = "tok_done"
                   /\ final_list' = base
                   /\ UNCHANGED wi
              ELSE /\ final_list' =
                          IF w.keep
                          THEN UnifyCopy(token_list, loop_bp[wi + 1], w.num_meas, 4, 0, 0, base)
                          ELSE base
                   /\ wi' = wi + 1
                   /\ UNCHANGED <<pc, error>>
    /\ UNCHANGED <<params, loop_bp, token_list, final_endpoints, loopVars, repeatVars>>

\* unify_loops appends the closing token and returns (lines 272-273)
UnifyLoopsReturn ==
    /\ pc = "ul"
    /\ Len(loop_bp) > 0
    /\ wi = Len(loop_bp)
    /\ final_list' = Append(final_list, RepeatClose(1))
    /\ pc' = "tok_done"
    /\ UNCHANGED <<params, loop_bp, error, tokenVars, loopVars, repeatVars>>

NextTokens ==
    \/ FilterLoopsDensityEmpty
    \/ FilterLoopsDensityWindow
    \/ FilterLoopsDensityReturn
    \/ UnifyLoopsEmpty
    \/ UnifyLoopsWindow
    \/ UnifyLoopsReturn

SpecTokens == InitTokens /\ [][NextTokens]_vars

(***************************************************************************)
(* Properties of the token functions                                       *)
(***************************************************************************)
\* The clock at token index i: the sum of the wait tokens before it.
RECURSIVE Clock(_, _)
Clock(tokens, i) ==
    IF i = 0 THEN 0
    ELSE Clock(tokens, i - 1) + (IF HasWait(tokens[i]) THEN WaitTicks(tokens[i]) ELSE 0)

\* The 0-based indices of the tokens that lie in the window pts.
InWindow(tokens, pts) ==
    { i \in 0..(Len(tokens) - 1) : Clock(tokens, i) >= pts[1] /\ Clock(tokens, i) < pts[2] }

WindowMeasures(tokens, pts) ==
    Cardinality({ i \in InWindow(tokens, pts) : tokens[i + 1] = NewMeasure })

WindowNotes(tokens, pts) ==
    Cardinality({ i \in InWindow(tokens, pts) : HasNote(tokens[i + 1]) })

WindowInstruments(tokens, pts) ==
    { Instrument(tokens[i + 1]) : i \in { k \in InWindow(tokens, pts) : HasNote(tokens[k + 1]) } }

\* C3: a window whose density scan counted no instrument has density 0 and
\* is rejected, in filter_loops_density and in unify_loops alike; no division
\* fault is raised.
C3_ZeroInstrumentsRejected ==
    /\ error = {}
    /\ \A f \in DOMAIN scan : \A k \in 1..Len(scan[f]) :
           scan[f][k].instruments = {} => (~scan[f][k].raised /\ ~scan[f][k].keep)

\* C4: filter_loops_density keeps a window iff the note tokens inside the
\* window, divided by the distinct instruments among them, are at least
\* density times the new_measure tokens inside the window.  (Stated for the
\* windows that hold a note, so that no division by zero is involved.)
C4_DensityOfWindowNotes ==
    pc \in {"fld", "ul", "tok_done"} =>
        \A k \in 1..Len(scan.fld) :
            LET w == scan.fld[k]
            IN  (~w.raised /\ WindowInstruments(token_list, w.pts) # {}) =>
                    (w.keep <=>
                        WindowNotes(token_list, w.pts) >=
                            params.density * WindowMeasures(token_list, w.pts)
                                * Cardinality(WindowInstruments(token_list, w.pts)))

\* C5: unify_loops emits a window iff filter_loops_density keeps it.
C5_SameSkipRule ==
    pc \in {"fld", "ul", "tok_done"} =>
        \A k \in 1..Len(scan.ul) :
            (k <= Len(scan.fld) /\ ~scan.fld[k].raised /\ ~scan.ul[k].raised) =>
                (scan.ul[k].keep <=> scan.fld[k].keep)

\* C6: unify_loops returns exactly the header, the first 4 tokens, whenever
\* no window is accepted, the window list being empty or not.
C6_HeaderOnlyWhenNoneAccepted ==
    (/\ pc = "tok_done"
     /\ error = {}
     /\ \A k \in 1..Len(scan.ul) : ~scan.ul[k].keep)
        => final_list = HeaderOf(token_list)

(***************************************************************************)
(* get_repeats / get_num_repeats                                           *)
(***************************************************************************)
\* A dict kept as a function: d[k] = v
DictSet(d, k, v) == IF k \in DOMAIN d THEN [d EXCEPT ![k] = v] ELSE d @@ (k :> v)

\* One iteration of the scan loop (lines 331-359, and the same lines
\* 392-420) at index i, on the record st of the scan's locals.
ScanToken(words, i, st) ==
    LET t == words[i + 1]
        notes1 == IF HasNote(t) THEN CountNote(st.curr_notes, Instrument(t))
                  ELSE st.curr_notes
        opened == words[i + 2] = RepeatOpen
        length1 == IF opened THEN 1 ELSE st.curr_length + 1
        notes2 == IF opened THEN EmptyDict ELSE notes1
        open1 == IF opened THEN Append(st.open_reps, i) ELSE st.open_reps
        end1 == IF opened THEN DictSet(st.endpoint_dict, i, -1) ELSE st.endpoint_dict
        closing == HasRepeatClose(words[i + 2]) \/ HasRepeatClose(words[i + 3])
        curr_density == <<TotalNotes(notes2), Cardinality(DOMAIN notes2)>>
    IN  IF t # NewMeasure THEN [st EXCEPT !.curr_notes = notes1]
        ELSE IF ~closing
        THEN [st EXCEPT !.curr_notes = notes2, !.curr_length = length1,
                        !.open_reps = open1, !.endpoint_dict = end1]
        ELSE IF Len(open1) > 0
        THEN LET idx == open1[Len(open1)]
             IN  [ curr_notes |-> notes2, curr_length |-> length1,
                   open_reps |-> SubSeq(open1, 1, Len(open1) - 1),
                   endpoint_dict |-> DictSet(end1, idx, i),
                   length_dict |-> DictSet(st.length_dict, idx, <<length1, curr_density>>),
                   resolved |-> Append(st.resolved, idx) ]
        ELSE IF DOMAIN end1 = {}
        THEN [ curr_notes |-> notes2, curr_length |-> length1, open_reps |-> open1,
               endpoint_dict |-> DictSet(end1, 0, i),
               length_dict |-> DictSet(st.length_dict, 0, <<length1, curr_density>>),
               resolved |-> Append(st.resolved, 0) ]
        ELSE [st EXCEPT !.curr_notes = notes2, !.curr_length = length1]

\* The filter of lines 366-371 (and 425-430) for the region that starts at start
RegionKept(endpoints, lengths, start, p) ==
    LET end == endpoints[start]
        length_meas == lengths[start][1]
        length_notes == lengths[start][2]
        sparse == IF length_notes[2] = 0 THEN 0 < p.density * length_meas
                  ELSE length_notes[1] < p.density * length_meas * length_notes[2]
    IN  IF end <= 0 THEN FALSE
        ELSE ~(length_meas < p.min_meas \/ length_meas > p.max_meas \/ sparse)

\* The while loop of lines 373-377 from end
RECURSIVE NextMeasure(_, _)
NextMeasure(words, end) ==
    IF end < Len(words) /\ end >= 0
    THEN (IF words[end + 1] = NewMeasure THEN end ELSE NextMeasure(words, end + 1))
    ELSE end

\* The keys of a dict in ascending order.  The scan inserts its keys in
\* ascending order (the implicit key 0 only into an empty dict), so this is
\* the order of endpoint_dict.keys().
RECURSIVE Keys(_)
Keys(ks) ==
    IF ks = {} THEN <<>>
    ELSE LET k == CHOOSE a \in ks : \A b \in ks : a <= b
         IN  <<k>> \o Keys(ks \ {k})

\* The loop of lines 364-379 over the remaining keys, appending to out
RECURSIVE CollectRepeats(_, _, _, _, _, _)
CollectRepeats(words, endpoints, lengths, p, keys, out) ==
    IF keys = <<>> THEN out
    ELSE LET start == Head(keys)
             end == NextMeasure(words, endpoints[start] + 1)
             out1 == IF RegionKept(endpoints, lengths, start, p) /\ end > start
                     THEN out \o SubSeq(words, start + 1, end)
                     ELSE out
         IN  CollectRepeats(words, endpoints, lengths, p, Tail(keys), out1)

\* The start indices the filter keeps
KeptRegions(endpoints, lengths, p) ==
    { start \in DOMAIN endpoints : RegionKept(endpoints, lengths, start, p) }

(***************************************************************************)
(* The repeat scanners as a state machine.  The scan of get_num_repeats    *)
(* (lines 385-420) is the scan of get_repeats (lines 324-359) line for     *)
(* line and reads none of the keyword arguments, so one scan stands for    *)
(* both calls; the function called and its arguments are drawn when the    *)
(* scan has ended and the filter loop starts.                              *)
(***************************************************************************)
MaxWords == 8

WordTokens == {NewMeasure, RepeatOpen, RepeatClose(1), NoteToken("g")}

WordLists == UNION { [1..n -> WordTokens] : n \in 0..MaxWords }

RepeatParams == [min_meas : {1, 2}, max_meas : {2}, density : {0, 1}]

ScanLocals ==
    [ curr_notes |-> curr_notes, curr_length |-> curr_length, open_reps |-> open_reps,
      endpoint_dict |-> endpoint_dict, length_dict |-> length_dict,
      resolved |-> resolved ]

InitRepeats ==
    /\ pc = "scan"
    /\ list_words \in WordLists
    /\ fn = ""
    /\ params = <<>>
    /\ ti = 0
    /\ endpoint_dict = EmptyDict
    /\ length_dict = EmptyDict
    /\ open_reps = <<>>
    /\ curr_length = 0
    /\ curr_notes = EmptyDict
    /\ resolved = <<>>
    /\ kept = {}
    /\ num_repeats = 0
    /\ final_list = <<>>
    /\ loop_bp = <<>>
    /\ error = {}
    /\ IdleLoops /\ IdleTokens

\* One iteration of for i in range(num_words-2)
RepeatScanStep ==
    /\ pc = "scan"
    /\ ti < Len(list_words) - 2
    /\ LET st == ScanToken(list_words, ti, ScanLocals)
       IN  /\ curr_notes' = st.curr_notes
           /\ curr_length' = st.curr_length
           /\ open_reps' = st.open_reps
           /\ endpoint_dict' = st.endpoint_dict
           /\ length_dict' = st.length_dict
           /\ resolved' = st.resolved
    /\ ti' = ti + 1
    /\ UNCHANGED <<pc, params, loop_bp, final_list, error, fn, list_words, kept,
                   num_repeats, loopVars, tokenVars>>

\* get_repeats after its scan: lines 361-381
GetRepeatsFilter ==
    /\ pc = "scan"
    /\ ti >= Len(list_words) - 2
    /\ fn' = "get_repeats"
    /\ \E p \in RepeatParams :
          /\ params' = p
          /\ kept' = KeptRegions(endpoint_dict, length_dict, p)
          /\ final_list' = CollectRepeats(list_words, endpoint_dict, length_dict, p,
                                          Keys(DOMAIN endpoint_dict), <<>>)
    /\ pc' = "rep_done"
    /\ UNCHANGED <<loop_bp, error, list_words, ti, endpoint_dict, length_dict, open_reps,
                   curr_length, curr_notes, resolved, num_repeats, loopVars, tokenVars>>

\* get_num_repeats after its scan: lines 422-434
GetNumRepeatsFilter ==
    /\ pc = "scan"
    /\ ti >= Len(list_words) - 2
    /\ fn' = "get_num_repeats"
    /\ \E p \in RepeatParams :
          /\ params' = p
          /\ kept' = KeptRegions(endpoint_dict, length_dict, p)
          /\ num_repeats' = Cardinality(KeptRegions(endpoint_dict, length_dict, p))
    /\ pc' = "rep_done"
    /\ UNCHANGED <<loop_bp, final_list, error, list_words, ti, endpoint_dict, length_dict,
                   open_reps, curr_length, curr_notes, resolved, loopVars, tokenVars>>

NextRepeats ==
    \/ RepeatScanStep
    \/ GetRepeatsFilter
    \/ GetNumRepeatsFilter

SpecRepeats == InitRepeats /\ [][NextRepeats]_vars

(***************************************************************************)
(* Properties of the repeat scanners                                       *)
(***************************************************************************)
\* The 0-based indices of the repeat_open, repeat_close and new_measure tokens
OpenIndices(words) == { i \in 0..(Len(words) - 1) : words[i + 1] = RepeatOpen }
CloseIndices(words) == { i \in 0..(Len(words) - 1) : HasRepeatClose(words[i + 1]) }
MeasureIndices(words) == { i \in 0..(Len(words) - 1) : words[i + 1] = NewMeasure }

\* The new_measure that starts the measure holding token index q (q itself
\* when it is a new_measure); -1 when no measure has started.
MeasureOf(words, q) ==
    LET ms == { i \in MeasureIndices(words) : i <= q }
    IN  IF ms = {} THEN -1 ELSE CHOOSE m \in ms : \A i \in ms : i <= m

\* The index after the last token of the measure that starts at m
MeasureEnd(words, m) ==
    LET ms == { i \in MeasureIndices(words) : i > m }
    IN  IF ms = {} THEN Len(words) ELSE CHOOSE e \in ms : \A i \in ms : e <= i

\* The new_measure tokens from index a through index b
MeasuresBetween(words, a, b) == Cardinality({ i \in MeasureIndices(words) : a <= i /\ i <= b })

\* notes / instruments >= bound, with no instrument counting as density 0
DensityAtLeast(notes, instruments, bound) ==
    IF instruments = 0 THEN 0 >= bound ELSE notes >= bound * instruments

\* The stream holds one repeat_open and one repeat_close, each directly
\* after the new_measure of its measure (the close after the open when they
\* share a measure), the open's measure not after the close's.
OnePair(words) ==
    /\ Cardinality(OpenIndices(words)) = 1
    /\ Cardinality(CloseIndices(words)) = 1
    /\ LET a == CHOOSE i \in OpenIndices(words) : TRUE
           b == CHOOSE i \in CloseIndices(words) : TRUE
       IN  /\ a >= 1 /\ words[a] = NewMeasure
           /\ b >= 1
           /\ \/ words[b] = NewMeasure
              \/ b = a + 1
           /\ a < b

\* No measure of the stream is empty: no new_measure directly follows another.
NoEmptyMeasure(words) ==
    \A i \in MeasureIndices(words) : i + 1 \notin MeasureIndices(words)

\* C7: for a stream with one non-nested repeat_open ... repeat_close pair
\* that spans exactly min_meas measures and whose notes reach the configured
\* density, get_num_repeats returns 1 and get_repeats returns the tokens from
\* the new_measure of the open's measure through the last token of the
\* close's measure, wherever the pair sits.  (Stated for a pair that does
\* not start at index 0 of the stream.)
C7_SinglePairRoundTrip ==
    (pc = "rep_done" /\ OnePair(list_words) /\ list_words[1] # NewMeasure) =>
        LET a == CHOOSE i \in OpenIndices(list_words) : TRUE
            b == CHOOSE i \in CloseIndices(list_words) : TRUE
            start == a - 1
            last == MeasureOf(list_words, b)
            end == MeasureEnd(list_words, last)
            region == { i \in start..(end - 1) : HasNote(list_words[i + 1]) }
            instruments == { Instrument(list_words[i + 1]) : i \in region }
        IN  (/\ MeasuresBetween(list_words, start, last) = params.min_meas
             /\ DensityAtLeast(Cardinality(region), Cardinality(instruments),
                               params.density * params.min_meas))
            => /\ fn = "get_num_repeats" => num_repeats = 1
               /\ fn = "get_repeats" => final_list = SubSeq(list_words, start + 1, end)

\* The repeat_close token that resolved the region whose endpoint is end
ClosingToken(words, end) == IF HasRepeatClose(words[end + 2]) THEN end + 1 ELSE end + 2

\* C8: a resolved region that an explicit repeat_open started is kept iff
\* min_meas <= measure_length <= max_meas and its note density is at least
\* density x measure_length, where measure_length counts the measures from
\* the open's measure through the close's measure.  (Stated for streams
\* with no empty measure and for regions resolved past index 0.)
C8_KeptIffWithinBounds ==
    (pc = "rep_done" /\ NoEmptyMeasure(list_words)) =>
        \A start \in DOMAIN endpoint_dict :
            (endpoint_dict[start] > 0 /\ list_words[start + 2] = RepeatOpen) =>
                LET close == ClosingToken(list_words, endpoint_dict[start])
                    measure_length ==
                        MeasuresBetween(list_words, start, MeasureOf(list_words, close))
                    note_density == length_dict[start][2]
                IN  start \in kept <=>
                        /\ params.min_meas <= measure_length
                        /\ measure_length <= params.max_meas
                        /\ DensityAtLeast(note_density[1], note_density[2],
                                          params.density * measure_length)

\* C10: after any prefix of the scan the regions with a resolved endpoint
\* are no more than the repeat_close tokens read so far (the two tokens of
\* look-ahead included), and no region is resolved while a region opened
\* inside it is still open.
C10_OneRegionPerClose ==
    pc \in {"scan", "rep_done"} =>
        /\ Len(resolved) <=
              Cardinality({ q \in CloseIndices(list_words) : q <= ti + 1 })
        /\ \A k \in 1..Len(resolved) : \A j \in 1..Len(open_reps) :
              open_reps[j] > resolved[k] => open_reps[j] > endpoint_dict[resolved[k]]

====
